---- MODULE Spec2Model ----
(***************************************************************************)
(* Model of the two tensor-file codecs of the repository:                  *)
(*   src/src/advcodec.cpp  LLMCodec           (quantize/float16 + delta +   *)
(*                                             RLE, the "lossy" tool)       *)
(*   src/src/codec_4.cpp   OptimizedLLMCodec  (XOR-delta + zstd, the        *)
(*                                             "lossless" tool)             *)
(* Bytes are 0..255.  A 32-bit word is the tuple of its four bytes in file  *)
(* order (little endian), a 64-bit word the tuple of its eight bytes, so    *)
(* that every width of the program is kept exactly.                         *)
(***************************************************************************)
EXTENDS Integers, Sequences, FiniteSets, TLC

VARIABLES
    t_in,       \* transform harness: the argument handed to the encoder
    t_enc,      \* transform harness: what the encoder returned
    t_dec,      \* transform harness: what the decoder returned
    t_pc,       \* transform harness: "input" -> "encoded" -> "decoded"
    tool,       \* "lossy" (advcodec.cpp) or "lossless" (codec_4.cpp)
    use_8bit,   \* lossy tool: FALSE when --float16 is given
    fault,      \* the step the environment makes fail, or "none"
    in_file,    \* the bytes of the file given to -c
    llmc_file,  \* the container file -c writes and -d reads
    c_ret,      \* what the compress call returned
    c_meta,     \* how many metadata bytes the compress call wrote
    c_ran,      \* the stages the compress call ran, in order
    c_exit,     \* the exit code of the -c process (-1: killed)
    out_file,   \* the file -d writes
    d_ret,      \* what the decompress call returned
    d_meta,     \* how many metadata bytes the decompress call read
    d_ran,      \* the stages the decompress call ran, in order
    d_exit,     \* the exit code of the -d process (-1: killed)
    ub,         \* the undefined behaviour the calls ran into
    pc          \* "start" -> "compressed" -> "decompressed"

tvars == <<t_in, t_enc, t_dec, t_pc>>
pvars == <<tool, use_8bit, fault, in_file, llmc_file, c_ret, c_meta, c_ran, c_exit,
           out_file, d_ret, d_meta, d_ran, d_exit, ub, pc>>
vars == <<t_in, t_enc, t_dec, t_pc,
          tool, use_8bit, fault, in_file, llmc_file, c_ret, c_meta, c_ran, c_exit,
          out_file, d_ret, d_meta, d_ran, d_exit, ub, pc>>

\* a container file that does not exist; one that holds bytes
NoFile == [exists |-> FALSE, bytes |-> <<>>]
FileOf(bytes) == [exists |-> TRUE, bytes |-> bytes]

\* an output file that does not exist; one written as the metadata bytes
\* followed by the tensor (bytes, or dequantized values of 4 bytes each)
NoOutput == [exists |-> FALSE, header |-> <<>>, tensor |-> <<>>]
OutputOf(header, tensor) == [exists |-> TRUE, header |-> header, tensor |-> tensor]

\* the tools are not running: the state of the variables of the two tools
\* while a transform is exercised alone
ToolsIdle ==
    /\ tool = "none"
    /\ use_8bit = TRUE
    /\ fault = "none"
    /\ in_file = <<>>
    /\ llmc_file = NoFile
    /\ c_ret = "none"
    /\ c_meta = 0
    /\ c_ran = <<>>
    /\ c_exit = 0
    /\ out_file = NoOutput
    /\ d_ret = "none"
    /\ d_meta = 0
    /\ d_ran = <<>>
    /\ d_exit = 0
    /\ ub = {}
    /\ pc = "idle"

\* no transform is exercised alone
HarnessIdle ==
    /\ t_in = <<>>
    /\ t_enc = <<>>
    /\ t_dec = <<>>
    /\ t_pc = "idle"

(***************************************************************************)
(* Bytes and words                                                         *)
(***************************************************************************)
Byte == 0..255

RECURSIVE XorBits(_, _, _)
\* a ^ b on the low n bits
XorBits(a, b, n) ==
    IF n = 0 THEN 0
    ELSE ((a + b) % 2) + 2 * XorBits(a \div 2, b \div 2, n - 1)

\* uint32_t ^ uint32_t, byte by byte
XorU32(x, y) == [k \in 1..4 |-> XorBits(x[k], y[k], 8)]

\* n copies of v
Repeat(v, n) == [k \in 1..n |-> v]

RECURSIVE Loop(_, _, _, _)
\* for (i = lo; i <= hi; i++) s = body(s, i);  -- the state after the loop.
\* The range is halved so that the evaluation stays shallow; the first half
\* is computed before the second starts.
Loop(body(_, _), s, lo, hi) ==
    IF lo > hi THEN s
    ELSE IF lo = hi THEN body(s, lo)
    ELSE LET mid == (lo + hi) \div 2
             first == Loop(body, s, lo, mid)
         IN  IF {first} # {} THEN Loop(body, first, mid + 1, hi) ELSE s

\* the concatenation of a sequence of sequences
Flatten(ss) == Loop(LAMBDA acc, k : acc \o ss[k], <<>>, 1, Len(ss))

\* all sequences over S of length 0..n
SeqUpTo(S, n) == UNION {[1..k -> S] : k \in 0..n}

(***************************************************************************)
(* XOR-delta transform (codec_4.cpp:37-49).  The loops run in place: index *)
(* i below is the C++ index, data[i + 1] the TLA+ element.                 *)
(***************************************************************************)
\* for (i = size - 1; i > 0; i--) data[i] ^= data[i - 1];
xor_encode_loop(data) ==
    Loop(LAMBDA d, k : LET i == Len(data) - k
                       IN  [d EXCEPT ![i + 1] = XorU32(d[i + 1], d[i])],
         data, 1, Len(data) - 1)

\* for (i = 1; i < size; i++) data[i] ^= data[i - 1];
xor_decode_loop(data) ==
    Loop(LAMBDA d, i : [d EXCEPT ![i + 1] = XorU32(d[i + 1], d[i])],
         data, 1, Len(data) - 1)

\* the encoder with the traversal reversed: low index to high index
xor_delta_encode_forward(data) ==
    IF Len(data) <= 1 THEN data ELSE xor_decode_loop(data)

xor_delta_encode_inplace_u32(data) ==
    IF Len(data) <= 1 THEN data ELSE xor_encode_loop(data)

xor_delta_decode_inplace_u32(data) ==
    IF Len(data) <= 1 THEN data ELSE xor_decode_loop(data)

(***************************************************************************)
(* Harness of the XOR-delta transform                                      *)
(***************************************************************************)
MaxWords == 3

\* 0.0, -0.0, 1.5, -1.5 as float32 bit patterns, and two dense patterns
XorWords ==
    { <<0, 0, 0, 0>>, <<0, 0, 0, 128>>, <<0, 0, 192, 63>>, <<0, 0, 192, 191>>,
      <<255, 255, 255, 255>>, <<1, 2, 3, 4>> }

XorInit ==
    /\ ToolsIdle
    /\ t_in \in SeqUpTo(XorWords, MaxWords)
    /\ t_enc = <<>>
    /\ t_dec = <<>>
    /\ t_pc = "input"

XorEncode ==
    /\ t_pc = "input"
    /\ t_enc' = xor_delta_encode_inplace_u32(t_in)
    /\ t_pc' = "encoded"
    /\ UNCHANGED <<t_in, t_dec>>
    /\ UNCHANGED pvars

XorDecode ==
    /\ t_pc = "encoded"
    /\ t_dec' = xor_delta_decode_inplace_u32(t_enc)
    /\ t_pc' = "decoded"
    /\ UNCHANGED <<t_in, t_enc>>
    /\ UNCHANGED pvars

XorNext == XorEncode \/ XorDecode

SpecXor == XorInit /\ [][XorNext]_vars

\* C5: decoding the encoded words restores every word sequence, the empty
\* and the one-word sequence included, and the encoder leaves out[0] = w[0]
\* and out[i] = w[i] XOR w[i-1] with w the words before encoding.
C5_XorRoundTrip ==
    /\ t_pc \in {"encoded", "decoded"} =>
          /\ Len(t_enc) = Len(t_in)
          /\ \A k \in 1..Len(t_in) :
                t_enc[k] = IF k = 1 THEN t_in[1] ELSE XorU32(t_in[k], t_in[k - 1])
    /\ t_pc = "decoded" => t_dec = t_in

\* a decoded sequence of the largest length whose encoding changed every
\* word after the first
C5_Witness ==
    /\ t_pc = "decoded"
    /\ Len(t_in) = MaxWords
    /\ \A k \in 2..Len(t_in) : t_enc[k] # t_in[k] /\ t_in[k] # t_in[k - 1]
    /\ t_dec = t_in

(***************************************************************************)
(* Run-length codec (advcodec.cpp:139-207).  i is the C++ index.           *)
(***************************************************************************)
\* while (i + run < size && data[i + run] == data[i] && run < cap) run++;
\* started with run = 1: the first run >= 1 at which the condition fails
rle_run_scan(data, i, cap) ==
    LET Goes(run) == i + run < Len(data) /\ data[i + run + 1] = data[i + 1] /\ run < cap
    IN  CHOOSE run \in 1..cap : ~Goes(run) /\ \A r \in 1..(run - 1) : Goes(r)

\* the literal loop of lines 162-172 entered at index i with lit_length = 0:
\* the lit_length it ends with (index and lit_length advance together)
rle_literal_scan(data, i) ==
    LET Goes(lit) == /\ i + lit < Len(data)
                     /\ lit < 255
                     /\ ~(rle_run_scan(data, i + lit, 4) >= 4)
    IN  CHOOSE lit \in 0..255 : ~Goes(lit) /\ \A l \in 0..(lit - 1) : Goes(l)

\* one iteration of the outer loop of compress_rle at index st.i: the record
\* it appends, a run [0xFF, run_length, value] or a literal [lit_length, bytes...]
rle_encode_step(data, st) ==
    LET i == st.i
        run_length == rle_run_scan(data, i, 255)
        lit_length == rle_literal_scan(data, i)
    IN  IF run_length >= 4
        THEN [i |-> i + run_length,
              recs |-> Append(st.recs, [kind |-> "run", len |-> run_length,
                                        bytes |-> <<255, run_length, data[i + 1]>>])]
        ELSE [i |-> i + lit_length,
              recs |-> Append(st.recs, [kind |-> "literal", len |-> lit_length,
                                        bytes |-> <<lit_length>>
                                                  \o SubSeq(data, i + 1, i + lit_length)])]

\* the records compress_rle emits: while (i < size) over the indices the loop
\* stops at (an index inside a record already emitted is passed over)
rle_records(data) ==
    Loop(LAMBDA st, idx : IF st.i = idx THEN rle_encode_step(data, st) ELSE st,
         [i |-> 0, recs |-> <<>>], 0, Len(data) - 1).recs

compress_rle(data) ==
    LET recs == rle_records(data)
    IN  Flatten([k \in 1..Len(recs) |-> recs[k].bytes])

\* the decoder stepping over the bytes of a literal but not its length byte
rle_decode_step_no_advance(compressed, st) ==
    LET i == st.i
    IN  IF compressed[i + 1] = 255 /\ i + 2 < Len(compressed)
        THEN [st EXCEPT !.i = i + 3,
                        !.data = st.data \o Repeat(compressed[i + 3], compressed[i + 2])]
        ELSE LET length == compressed[i + 1]
             IN  IF i + length < Len(compressed)
                 THEN [st EXCEPT !.i = i + length,
                                 !.data = st.data \o SubSeq(compressed, i + 2, i + 1 + length)]
                 ELSE [st EXCEPT !.stop = TRUE]

\* the decoder asking for one more byte than a run record has
rle_decode_step_strict(compressed, st) ==
    LET i == st.i
    IN  IF compressed[i + 1] = 255 /\ i + 3 < Len(compressed)
        THEN [st EXCEPT !.i = i + 3,
                        !.data = st.data \o Repeat(compressed[i + 3], compressed[i + 2])]
        ELSE LET length == compressed[i + 1]
             IN  IF i + length < Len(compressed)
                 THEN [st EXCEPT !.i = i + length + 1,
                                 !.data = st.data \o SubSeq(compressed, i + 2, i + 1 + length)]
                 ELSE [st EXCEPT !.stop = TRUE]

\* one iteration of the loop of decompress_rle at read position st.i
rle_decode_step(compressed, st) ==
    LET i == st.i
    IN  IF compressed[i + 1] = 255 /\ i + 2 < Len(compressed)
        THEN [st EXCEPT !.i = i + 3,
                        !.data = st.data \o Repeat(compressed[i + 3], compressed[i + 2])]
        ELSE LET length == compressed[i + 1]
             IN  IF i + length < Len(compressed)
                 THEN [st EXCEPT !.i = i + length + 1,
                                 !.data = st.data \o SubSeq(compressed, i + 2, i + 1 + length)]
                 ELSE [st EXCEPT !.stop = TRUE]

\* while (i < size) { ... else break; } over the read positions it stops at
decompress_rle(compressed) ==
    Loop(LAMBDA st, idx : IF st.i = idx /\ ~st.stop
                          THEN rle_decode_step(compressed, st) ELSE st,
         [i |-> 0, data |-> <<>>, stop |-> FALSE], 0, Len(compressed) - 1).data

(***************************************************************************)
(* Harness of the run-length codec.  An input is a concatenation of        *)
(* segments: n equal bytes, or n bytes alternating between v and v + 1.    *)
(***************************************************************************)
MaxOver == 2
MaxShort == 5

RleValues == {0, 255}
RleCounts == {1, 3, 4} \cup {n \in 254 .. (254 + MaxOver) : TRUE}
RleSegs == [kind : {"run", "alt"}, v : RleValues, n : RleCounts]

RleSegBytes(s) ==
    [k \in 1..s.n |-> IF s.kind = "run" \/ k % 2 = 1 THEN s.v ELSE (s.v + 1) % 256]

\* no segment, one segment, or two segments one after the other; and every
\* short sequence over bytes that also occur as record lengths and marker
RleInputs ==
    {<<>>} \cup {RleSegBytes(a) : a \in RleSegs}
           \cup {RleSegBytes(a) \o RleSegBytes(b) : a \in RleSegs, b \in RleSegs}
           \cup SeqUpTo({0, 3, 255}, MaxShort)

RleInit ==
    /\ ToolsIdle
    /\ t_in \in RleInputs
    /\ t_enc = <<>>
    /\ t_dec = <<>>
    /\ t_pc = "input"

RleEncode ==
    /\ t_pc = "input"
    /\ t_enc' = compress_rle(t_in)
    /\ t_pc' = "encoded"
    /\ UNCHANGED <<t_in, t_dec>>
    /\ UNCHANGED pvars

RleDecode ==
    /\ t_pc = "encoded"
    /\ t_dec' = decompress_rle(t_enc)
    /\ t_pc' = "decoded"
    /\ UNCHANGED <<t_in, t_enc>>
    /\ UNCHANGED pvars

RleNext == RleEncode \/ RleDecode

SpecRle == RleInit /\ [][RleNext]_vars

\* the encoder emitted a literal record of exactly 255 bytes
RleHasLiteral255(data) ==
    LET recs == rle_records(data)
    IN  \E k \in 1..Len(recs) : recs[k].kind = "literal" /\ recs[k].len = 255

\* C4: whenever the encoding of b holds no literal record of exactly 255
\* bytes, decoding it gives b back (the empty sequence and runs longer than
\* 255, split by the cap, included).
C4_RleRoundTrip ==
    (t_pc = "decoded" /\ ~RleHasLiteral255(t_in)) => t_dec = t_in

\* a run longer than 255 bytes, split by the cap into a 255-byte run record
\* and a record for the rest of the same value, decoded
C4_Witness ==
    /\ t_pc = "decoded"
    /\ ~RleHasLiteral255(t_in)
    /\ Len(t_in) > 255
    /\ LET recs == rle_records(t_in)
       IN  \E k \in 1..(Len(recs) - 1) :
              /\ recs[k].kind = "run"
              /\ recs[k].len = 255
              /\ recs[k + 1].bytes[Len(recs[k + 1].bytes)] = recs[k].bytes[3]
    /\ t_dec = t_in

\* the original property without its exception: every input round-trips
C4_RoundTripAlways == t_pc = "decoded" => t_dec = t_in

(***************************************************************************)
(* Delta coder (advcodec.cpp:97-136)                                       *)
(***************************************************************************)
Abs(n) == IF n < 0 THEN -n ELSE n

\* static_cast<uint8_t>(n)
U8(n) == ((n % 256) + 256) % 256

\* the byte pushed for data[i]: sign_bit | (abs_delta & 0x7F)
delta_encode_byte(cur, prev) ==
    LET delta == cur - prev
        abs_delta == U8(Abs(delta))
        sign_bit == IF delta < 0 THEN 128 ELSE 0
    IN  sign_bit + (abs_delta % 128)

delta_encode_varbyte(data) ==
    IF data = <<>> THEN <<>>
    ELSE Loop(LAMBDA encoded, i : Append(encoded, delta_encode_byte(data[i + 1], data[i])),
              <<data[1]>>, 1, Len(data) - 1)

\* the decoder taking every delta as positive
delta_decode_unsigned(encoded) ==
    IF encoded = <<>> THEN <<>>
    ELSE Loop(LAMBDA decoded, i :
                  Append(decoded, U8(decoded[Len(decoded)] + (encoded[i + 1] % 128))),
              <<encoded[1]>>, 1, Len(encoded) - 1)

delta_decode_varbyte(encoded) ==
    IF encoded = <<>> THEN <<>>
    ELSE Loop(LAMBDA decoded, i :
                  LET sign_bit == (encoded[i + 1] \div 128) * 128
                      magnitude == encoded[i + 1] % 128
                      delta == IF sign_bit # 0 THEN -magnitude ELSE magnitude
                  IN  Append(decoded, U8(decoded[Len(decoded)] + delta)),
              <<encoded[1]>>, 1, Len(encoded) - 1)

(***************************************************************************)
(* Harness of the delta coder                                              *)
(***************************************************************************)
MaxDeltaLen == 3

DeltaBytes == {0, 1, 127, 128, 129, 255}

DeltaInit ==
    /\ ToolsIdle
    /\ t_in \in SeqUpTo(DeltaBytes, MaxDeltaLen)
    /\ t_enc = <<>>
    /\ t_dec = <<>>
    /\ t_pc = "input"

DeltaEncode ==
    /\ t_pc = "input"
    /\ t_enc' = delta_encode_varbyte(t_in)
    /\ t_pc' = "encoded"
    /\ UNCHANGED <<t_in, t_dec>>
    /\ UNCHANGED pvars

DeltaDecode ==
    /\ t_pc = "encoded"
    /\ t_dec' = delta_decode_varbyte(t_enc)
    /\ t_pc' = "decoded"
    /\ UNCHANGED <<t_in, t_enc>>
    /\ UNCHANGED pvars

DeltaNext == DeltaEncode \/ DeltaDecode

SpecDelta == DeltaInit /\ [][DeltaNext]_vars

\* every pair of successive bytes differs by at most 127
DeltaNarrow(x) == \A k \in 2..Len(x) : Abs(x[k] - x[k - 1]) <= 127

\* C6: decoding the encoded bytes gives x back exactly when every pair of
\* successive bytes of x differs by at most 127; the encoded and the decoded
\* sequence have the length of x, and the first byte is emitted verbatim.
C6_DeltaRoundTripIff ==
    /\ t_pc \in {"encoded", "decoded"} =>
          /\ Len(t_enc) = Len(t_in)
          /\ t_in # <<>> => t_enc[1] = t_in[1]
    /\ t_pc = "decoded" =>
          /\ Len(t_dec) = Len(t_in)
          /\ (t_dec = t_in) <=> DeltaNarrow(t_in)

\* a sequence with a falling and a rising step inside the range, decoded back
C6_Witness ==
    /\ t_pc = "decoded"
    /\ Len(t_in) = 3
    /\ t_in[2] - t_in[1] = -127
    /\ t_in[3] - t_in[2] = 127
    /\ t_dec = t_in

\* a step of 128 that the 7 magnitude bits cannot hold: the decoded
\* sequence differs from the input
C6_WitnessWide ==
    /\ t_pc = "decoded"
    /\ \E k \in 2..Len(t_in) : Abs(t_in[k] - t_in[k - 1]) = 128
    /\ t_dec # t_in

(***************************************************************************)
(* Float16 transcoder (advcodec.cpp:27-64).  A float is its 32-bit         *)
(* pattern, as std::memcpy(&bits, &value, 4) reads it.                     *)
(***************************************************************************)
\* bit p (0 = least significant) of the 32-bit word w
U32Bit(w, p) == (w[(p \div 8) + 1] \div (2 ^ (p % 8))) % 2

RECURSIVE U32Field(_, _, _)
\* (bits >> lo) & (2^n - 1)
U32Field(w, lo, n) ==
    IF n = 0 THEN 0 ELSE U32Bit(w, lo) + 2 * U32Field(w, lo + 1, n - 1)

\* the word  (sign << 31) | (exponent << 23) | mantissa23, mantissa23 < 2^23
U32OfFields(sign, exponent, mantissa23) ==
    << mantissa23 % 256,
       (mantissa23 \div 256) % 256,
       (exponent % 2) * 128 + (mantissa23 \div 65536),
       sign * 128 + (exponent \div 2) >>

\* f32_to_f16 flushing only a negative rebiased exponent to zero
f32_to_f16_keep_zero_exponent(value) ==
    LET sign == U32Field(value, 31, 1) * 32768
        exponent == U32Field(value, 23, 8) - 127 + 15
        mantissa == U32Field(value, 13, 10)
    IN  IF exponent < 0 THEN sign
        ELSE IF exponent >= 31 THEN sign + 31744
        ELSE sign + exponent * 1024 + mantissa

\* 0x8000 = 32768, 0x7c00 = 31744; the three fields do not overlap, so | is +
f32_to_f16(value) ==
    LET sign == U32Field(value, 31, 1) * 32768
        exponent == U32Field(value, 23, 8) - 127 + 15
        mantissa == U32Field(value, 13, 10)
    IN  IF exponent <= 0 THEN sign
        ELSE IF exponent >= 31 THEN sign + 31744
        ELSE sign + exponent * 1024 + mantissa

\* value is a uint16_t; 0x7f800000 has exponent field 255 and mantissa 0
f16_to_f32(value) ==
    LET sign == value \div 32768
        exponent == (value \div 1024) % 32
        mantissa == value % 1024
    IN  IF exponent = 0 THEN U32OfFields(sign, 0, 0)
        ELSE IF exponent = 31 THEN U32OfFields(sign, 255, 0)
        ELSE U32OfFields(sign, exponent - 15 + 127, mantissa * 8192)

(***************************************************************************)
(* Harness of the float16 transcoder: a float32 pattern is encoded and the *)
(* half decoded; or any half at all is decoded.                            *)
(***************************************************************************)
F16Mantissas == {0, 1, 8191, 8192, 8193, 4194304, 6291455, 8388607}

F16Floats ==
    {U32OfFields(s, e, m) : s \in 0..1, e \in 0..255, m \in F16Mantissas}

Halves == 0..65535

F16Init ==
    /\ ToolsIdle
    /\ \/ /\ t_in \in F16Floats
          /\ t_enc = 0
          /\ t_dec = <<>>
          /\ t_pc = "input"
       \/ /\ t_in = <<>>
          /\ t_enc \in Halves
          /\ t_dec = <<>>
          /\ t_pc = "half"

F16Encode ==
    /\ t_pc = "input"
    /\ t_enc' = f32_to_f16(t_in)
    /\ t_pc' = "encoded"
    /\ UNCHANGED <<t_in, t_dec>>
    /\ UNCHANGED pvars

F16Decode ==
    /\ t_pc \in {"encoded", "half"}
    /\ t_dec' = f16_to_f32(t_enc)
    /\ t_pc' = IF t_pc = "encoded" THEN "decoded" ELSE "half_decoded"
    /\ UNCHANGED <<t_in, t_enc>>
    /\ UNCHANGED pvars

F16Next == F16Encode \/ F16Decode

SpecF16 == F16Init /\ [][F16Next]_vars

\* x with its 13 low mantissa bits cleared
F32Truncated(x) == <<0, x[2] - (x[2] % 32), x[3], x[4]>>

\* C8: with e the exponent field of x, the decoded half of x is x with its
\* 13 low mantissa bits cleared when 1 <= e-112 <= 30, zero with the sign of
\* x when e-112 <= 0 and infinity with the sign of x when e-112 >= 31; the
\* encoder never produces a half with exponent field 0 and a mantissa; the
\* decoder maps every half with exponent field 0 to signed zero and every
\* half with exponent field 31 to signed infinity.
C8_Float16RoundTrip ==
    /\ t_pc \in {"encoded", "decoded"} =>
          ~((t_enc \div 1024) % 32 = 0 /\ t_enc % 1024 # 0)
    /\ t_pc = "decoded" =>
          LET e == U32Field(t_in, 23, 8)
              s == U32Field(t_in, 31, 1)
          IN  /\ (1 <= e - 112 /\ e - 112 <= 30) => t_dec = F32Truncated(t_in)
              /\ e - 112 <= 0 => t_dec = <<0, 0, 0, 128 * s>>
              /\ e - 112 >= 31 => t_dec = <<0, 0, 128, 128 * s + 127>>
    /\ t_pc = "half_decoded" =>
          LET s == t_enc \div 32768
          IN  /\ (t_enc \div 1024) % 32 = 0 => t_dec = <<0, 0, 0, 128 * s>>
              /\ (t_enc \div 1024) % 32 = 31 => t_dec = <<0, 0, 128, 128 * s + 127>>

\* a negative normal float with low mantissa bits set came back truncated
C8_Witness ==
    /\ t_pc = "decoded"
    /\ U32Field(t_in, 23, 8) = 113
    /\ U32Field(t_in, 31, 1) = 1
    /\ U32Field(t_in, 0, 13) = 8191
    /\ t_dec = F32Truncated(t_in)
    /\ t_dec # t_in

(***************************************************************************)
(* Float values.  The value of a float32 pattern is held exactly, as an    *)
(* integer number of units of 2^-30; the patterns of the model are those   *)
(* whose value is such an integer of magnitude at most 1.0.  Arithmetic on *)
(* values is exact: the inputs of the model are chosen so that every       *)
(* difference and every normalized ratio the code forms is a float32.      *)
(* A dequantized value is a whole number of units plus frac/255 of a unit. *)
(***************************************************************************)
\* 1.0f in units of 2^-30
FloatOne == 1073741824

\* the least number of units that is not below 1e-8f (1e-8 * 2^30 = 10.74):
\* range < 1e-8f  <=>  range < QuantEps
QuantEps == 11

\* the value of the float32 pattern w (sign, exponent field e, mantissa m):
\* (-1)^sign * (2^23 + m) * 2^(e - 150), in units of 2^-30
F32Value(w) ==
    LET sign == U32Field(w, 31, 1)
        e == U32Field(w, 23, 8)
        m == U32Field(w, 0, 23)
        magnitude == IF e = 0 THEN 0
                     ELSE IF e >= 120 THEN (8388608 + m) * (2 ^ (e - 120))
                     ELSE (8388608 + m) \div (2 ^ (120 - e))
    IN  IF sign = 1 THEN -magnitude ELSE magnitude

\* the patterns F32Value is exact on
F32Exact(w) ==
    LET e == U32Field(w, 23, 8)
        m == U32Field(w, 0, 23)
    IN  \/ e = 0 /\ m = 0
        \/ e >= 97 /\ e < 120 /\ (8388608 + m) % (2 ^ (120 - e)) = 0
        \/ e >= 120 /\ e <= 126
        \/ e = 127 /\ m = 0

RECURSIVE MulDiv(_, _, _)
\* <<q, r>> with a * b = q * c + r and 0 <= r < c, for 0 <= a <= c <= 2^30
\* and b >= 0, formed bit by bit of b so that no product leaves 32 bits
MulDiv(a, b, c) ==
    IF b = 0 THEN <<0, 0>>
    ELSE LET h == MulDiv(a, b \div 2, c)
             q2 == 2 * h[1] + (IF 2 * h[2] >= c THEN 1 ELSE 0)
             r2 == IF 2 * h[2] >= c THEN 2 * h[2] - c ELSE 2 * h[2]
             r3 == IF b % 2 = 1 THEN r2 + a ELSE r2
         IN  IF r3 >= c THEN <<q2 + 1, r3 - c>> ELSE <<q2, r3>>

SeqMin(vs) == CHOOSE v \in {vs[k] : k \in 1..Len(vs)} : \A k \in 1..Len(vs) : v <= vs[k]
SeqMax(vs) == CHOOSE v \in {vs[k] : k \in 1..Len(vs)} : \A k \in 1..Len(vs) : v >= vs[k]

\* *std::min_element / *std::max_element over floats: the first element
\* that no other element is below (above)
MinElement(values) ==
    values[CHOOSE k \in 1..Len(values) :
              /\ \A j \in 1..Len(values) : F32Value(values[k]) <= F32Value(values[j])
              /\ \A j \in 1..(k - 1) : F32Value(values[j]) > F32Value(values[k])]
MaxElement(values) ==
    values[CHOOSE k \in 1..Len(values) :
              /\ \A j \in 1..Len(values) : F32Value(values[k]) >= F32Value(values[j])
              /\ \A j \in 1..(k - 1) : F32Value(values[j]) < F32Value(values[k])]

\* std::clamp(x, lo, hi)
Clamp(x, lo, hi) == IF x < lo THEN lo ELSE IF x > hi THEN hi ELSE x

(***************************************************************************)
(* Quantizer (advcodec.cpp:67-94).  values are float32 patterns; min0 and  *)
(* max0 are what the caller's out_min and out_max hold before the call.    *)
(***************************************************************************)
\* static_cast<uint8_t>(std::clamp(normalized * 255.0f, 0.0f, 255.0f)) with
\* normalized = (v - out_min) / range: the conversion truncates
quantize_code(v, out_min, range) ==
    Clamp(MulDiv(v - out_min, 255, range)[1], 0, 255)

quantize_8bit(values, min0, max0) ==
    IF values = <<>> THEN [quantized |-> <<>>, out_min |-> min0, out_max |-> max0]
    ELSE LET out_min == MinElement(values)
             out_max == MaxElement(values)
             lo == F32Value(out_min)
             hi == F32Value(out_max)
             range == IF hi - lo < QuantEps THEN FloatOne ELSE hi - lo
         IN  [quantized |-> [k \in 1..Len(values) |->
                                quantize_code(F32Value(values[k]), lo, range)],
              out_min |-> out_min, out_max |-> out_max]

\* min_val + (q / 255.0f) * range, exactly:  range = 255 * k + s  gives
\* q * range / 255 = q * k + (q * s) / 255
dequantize_value(q, min_val, range) ==
    LET k == range \div 255
        s == range % 255
    IN  [whole |-> min_val + q * k + ((q * s) \div 255), frac |-> (q * s) % 255]

dequantize_8bit(quantized, min_val, max_val) ==
    LET range == F32Value(max_val) - F32Value(min_val)
    IN  [i \in 1..Len(quantized) |->
            dequantize_value(quantized[i], F32Value(min_val), range)]

(***************************************************************************)
(* Harness of the quantizer                                                *)
(***************************************************************************)
MaxFloats == 3

\* 0.0, 2^-28, 2^-27 (a range below 1e-8);  0.0, 2^-26, 2^-25 (a narrow
\* range above it);  0.0, 0.5, 1.0
QuantFloatSets ==
    { {<<0, 0, 0, 0>>, <<0, 0, 128, 49>>, <<0, 0, 0, 50>>},
      {<<0, 0, 0, 0>>, <<0, 0, 128, 50>>, <<0, 0, 0, 51>>},
      {<<0, 0, 0, 0>>, <<0, 0, 0, 63>>, <<0, 0, 128, 63>>} }

QuantInit ==
    /\ ToolsIdle
    /\ t_in \in UNION {SeqUpTo(S, MaxFloats) : S \in QuantFloatSets}
    /\ t_enc = <<>>
    /\ t_dec = <<>>
    /\ t_pc = "input"

QuantEncode ==
    /\ t_pc = "input"
    /\ t_enc' = quantize_8bit(t_in, <<0, 0, 0, 0>>, <<0, 0, 0, 0>>)
    /\ t_pc' = "encoded"
    /\ UNCHANGED <<t_in, t_dec>>
    /\ UNCHANGED pvars

QuantDecode ==
    /\ t_pc = "encoded"
    /\ t_dec' = dequantize_8bit(t_enc.quantized, t_enc.out_min, t_enc.out_max)
    /\ t_pc' = "decoded"
    /\ UNCHANGED <<t_in, t_enc>>
    /\ UNCHANGED pvars

QuantNext == QuantEncode \/ QuantDecode

SpecQuant == QuantInit /\ [][QuantNext]_vars

\* | v - d | <= step / 255, v and step in units, d a dequantized value
WithinStep(v, d, step) ==
    IF Abs(v - d.whole) > (step \div 255) + 1 THEN FALSE
    ELSE Abs(255 * (v - d.whole) - d.frac) <= step

\* d is exactly the value v
ExactValue(v, d) == d.whole = v /\ d.frac = 0

\* C7: for every non-empty f each value is reconstructed within
\* (max(f) - min(f)) / 255; the elements equal to min(f) get code 0, those
\* equal to max(f) get code 255, and both are reconstructed exactly; also
\* when max(f) - min(f) < 1e-8.  (When max(f) = min(f) every element is the
\* minimum, and code 0 is taken to satisfy the statement.)
C7_QuantErrorBound ==
    (t_pc = "decoded" /\ t_in # <<>>) =>
        LET f == [k \in 1..Len(t_in) |-> F32Value(t_in[k])]
            lo == SeqMin(f)
            hi == SeqMax(f)
        IN  /\ Len(t_dec) = Len(f)
            /\ \A k \in 1..Len(f) :
                  /\ WithinStep(f[k], t_dec[k], hi - lo)
                  /\ f[k] = lo => t_enc.quantized[k] = 0 /\ ExactValue(f[k], t_dec[k])
                  /\ (f[k] = hi /\ hi # lo) =>
                        t_enc.quantized[k] = 255 /\ ExactValue(f[k], t_dec[k])

\* the same property on the ranges the quantizer does not replace
C7_QuantErrorBoundWideRange ==
    (t_pc = "decoded" /\ t_in # <<>>) =>
        LET f == [k \in 1..Len(t_in) |-> F32Value(t_in[k])]
            lo == SeqMin(f)
            hi == SeqMax(f)
        IN  hi - lo >= QuantEps =>
              /\ Len(t_dec) = Len(f)
              /\ \A k \in 1..Len(f) :
                    /\ WithinStep(f[k], t_dec[k], hi - lo)
                    /\ f[k] = lo => t_enc.quantized[k] = 0 /\ ExactValue(f[k], t_dec[k])
                    /\ f[k] = hi => t_enc.quantized[k] = 255 /\ ExactValue(f[k], t_dec[k])

(***************************************************************************)
(* 64-bit and 32-bit unsigned integers as little-endian byte tuples, as    *)
(* std::memcpy and the stream reads and writes lay them out.               *)
(***************************************************************************)
\* the 4 bytes of n, 0 <= n < 2^31
LE32(n) == <<n % 256, (n \div 256) % 256, (n \div 65536) % 256, (n \div 16777216) % 256>>

\* the 8 bytes of n, 0 <= n < 2^31
LE64(n) == LE32(n) \o <<0, 0, 0, 0>>

\* x is below 2^31, and then its value
U64Fits(x) == x[4] < 128 /\ \A k \in 5..8 : x[k] = 0
U64ToNat(x) == x[1] + 256 * x[2] + 65536 * x[3] + 16777216 * x[4]
U32ToNat(x) == x[1] + 256 * x[2] + 65536 * x[3] + 16777216 * x[4]

\* x + y modulo 2^64
Add64(x, y) ==
    Loop(LAMBDA st, k : LET t == x[k] + y[k] + st.carry
                        IN  [sum |-> Append(st.sum, t % 256), carry |-> t \div 256],
         [sum |-> <<>>, carry |-> 0], 1, 8).sum

\* x > y as unsigned 64-bit integers
Gt64(x, y) == \E k \in 1..8 : x[k] > y[k] /\ \A j \in (k + 1)..8 : x[j] = y[j]

\* 8 + L as a mathematical integer exceeds n (n < 2^31): L itself is above
\* n - 8, which no wrap-around affects
MathEndBeyond(L, n) == n < 8 \/ Gt64(L, LE64(n - 8))

\* the words of a byte buffer holding n words: std::memcpy into uint32_t[n]
WordsOf(bytes, n) == [k \in 1..n |-> SubSeq(bytes, 4 * k - 3, 4 * k)]

\* the bytes of a word buffer
BytesOf(words) == Flatten(words)

(***************************************************************************)
(* Entropy backend.  libzstd is not part of the repository: a frame is the *)
(* zstd magic number followed by the content, which makes compression and  *)
(* decompression an exact inverse pair and every frame non-empty.          *)
(***************************************************************************)
ZstdMagic == <<40, 181, 47, 253>>

ZSTD_compress2(src) == ZstdMagic \o src

\* ZSTD_decompress(dst, dstCapacity, src, srcSize): the content and its
\* size, or an error (a damaged frame, or content that does not fit dst)
ZSTD_decompress(dstCapacity, src) ==
    IF /\ Len(src) >= 4
       /\ SubSeq(src, 1, 4) = ZstdMagic
       /\ Len(src) - 4 <= dstCapacity
    THEN [error |-> FALSE, content |-> SubSeq(src, 5, Len(src))]
    ELSE [error |-> TRUE, content |-> <<>>]

\* codec_4.cpp:52-72: an empty vector stands for failure
zstd_compress_mt(data, flt) ==
    IF flt = "c_backend" THEN <<>> ELSE ZSTD_compress2(data)

\* codec_4.cpp:74-82: out keeps its original_size bytes, zero where the frame
\* gave none; an empty vector stands for failure
zstd_decompress(data, original_size, flt) ==
    LET res == ZSTD_decompress(original_size, data)
    IN  IF flt = "d_backend" \/ res.error THEN <<>>
        ELSE res.content \o Repeat(0, original_size - Len(res.content))

(***************************************************************************)
(* Stream reads (std::ifstream::read).  A read that finds fewer bytes than *)
(* asked takes what is there and fails the stream; every later read then   *)
(* takes nothing.  The buffer of a std::vector is zero where nothing was   *)
(* read into it.                                                           *)
(***************************************************************************)
StreamOpen == [pos |-> 0, ok |-> TRUE]

ReadGot(bytes, st, n) ==
    IF ~st.ok THEN 0
    ELSE IF Len(bytes) - st.pos < n THEN Len(bytes) - st.pos ELSE n

\* the vector of n bytes after input.read(vector.data(), n)
ReadVector(bytes, st, n) ==
    SubSeq(bytes, st.pos + 1, st.pos + ReadGot(bytes, st, n))
        \o Repeat(0, n - ReadGot(bytes, st, n))

\* the stream after the read
ReadAdvance(bytes, st, n) ==
    [pos |-> st.pos + ReadGot(bytes, st, n), ok |-> st.ok /\ ReadGot(bytes, st, n) = n]

\* what a field of a local variable holds when no read filled it: any byte;
\* two are followed
Indeterminate == {0, 255}

\* the n bytes of a local struct after input.read(&s, n): what the stream
\* gave, then what the bytes held before
ReadStruct(bytes, st, n, junk) ==
    SubSeq(bytes, st.pos + 1, st.pos + ReadGot(bytes, st, n))
        \o Repeat(junk, n - ReadGot(bytes, st, n))

\* using a struct the stream did not fill
StructUB(st) == IF st.ok THEN {} ELSE {"read of an uninitialized field"}

(***************************************************************************)
(* Outcomes of a call: what it returned ("true", "false", or "crash" for   *)
(* abnormal termination), the file it left, and the undefined behaviour it *)
(* ran into.  A call is a set of outcomes: one, unless undefined behaviour *)
(* leaves the result to the build.                                         *)
(***************************************************************************)
Outcome(ret, file, undef) ==
    [ret |-> ret, file |-> file, ub |-> undef, meta |-> 0, ran |-> <<>>]

\* the outcome of a call that moved n metadata bytes
Moved(ret, file, n) ==
    [ret |-> ret, file |-> file, ub |-> {}, meta |-> n, ran |-> <<>>]

\* the stages of a pipeline up to and including stage
UpTo(stages, stage) ==
    SubSeq(stages, 1, CHOOSE k \in 1..Len(stages) : stages[k] = stage)

\* the outcomes of a call that went through the stages up to stage, and no
\* further unless the outcome says so
At(stages, stage, outcomes) ==
    {IF o.ran = <<>> THEN [o EXCEPT !.ran = UpTo(stages, stage)] ELSE o :
        o \in outcomes}

\* undefined behaviour found on the way to the outcomes
Adding(undef, outcomes) == {[o EXCEPT !.ub = o.ub \cup undef] : o \in outcomes}

\* main: 0 when the call returned true, 1 when it returned false
main_exit(ret) == IF ret = "true" THEN 0 ELSE IF ret = "false" THEN 1 ELSE -1

\* std::memcpy(dst, src, n) into a buffer of cap bytes: past the end of the
\* buffer when n > cap
CopyUB(n, cap) == IF n > cap THEN {"write past the end of a buffer"} ELSE {}

\* the results undefined behaviour allows: the call goes on as if the bytes
\* outside the buffer did not matter, or the process dies
WithUB(undef, outcomes) ==
    IF undef = {} THEN outcomes
    ELSE {[o EXCEPT !.ub = o.ub \cup undef] : o \in outcomes}
         \cup {Outcome("crash", NoFile, undef)}

(***************************************************************************)
(* Lossless tool (codec_4.cpp:183-303)                                     *)
(***************************************************************************)
\* lines 224-239: Header, metadata, BlockHeader, frame
lossless_container(file_size, header_data, num_floats, compressed) ==
    LE64(file_size) \o LE64(Len(header_data)) \o LE32(num_floats) \o LE32(1)
        \o LE64(Len(compressed) + 16)
        \o header_data
        \o LE64(Len(compressed)) \o LE64(num_floats * 4)
        \o compressed

\* line 199: if (8 + header_size > file_size), in 64-bit arithmetic
lossless_prefix_bad(header_size, file_size) ==
    Gt64(Add64(LE64(8), header_size), LE64(file_size))

\* the stages of compress_lossless, in the order of the code
LosslessCompressStages ==
    <<"open_in", "read", "check_size", "split", "xor_delta", "backend", "open_out", "write">>

compress_lossless(data, flt) ==
    LET S == LosslessCompressStages
        file_size == Len(data)
        header_size == SubSeq(data, 1, 8)
        split == U64ToNat(Add64(LE64(8), header_size))
        header_data == SubSeq(data, 1, split)
        tensor_bytes == SubSeq(data, split + 1, file_size)
        num_floats == Len(tensor_bytes) \div 4
        undef == CopyUB(Len(tensor_bytes), num_floats * 4)
        u32 == xor_delta_encode_inplace_u32(WordsOf(tensor_bytes, num_floats))
        compressed == zstd_compress_mt(BytesOf(u32), flt)
    IN  IF flt = "c_open_in" THEN At(S, "open_in", {Outcome("false", NoFile, {})})
        ELSE IF file_size < 8 THEN At(S, "check_size", {Outcome("false", NoFile, {})})
        ELSE IF lossless_prefix_bad(header_size, file_size)
             THEN At(S, "check_size", {Outcome("false", NoFile, {})})
        ELSE At(S, "split",
               WithUB(undef,
                 IF compressed = <<>>
                 THEN At(S, "backend", {Outcome("false", NoFile, {})})
                 ELSE IF flt = "c_open_out"
                 THEN At(S, "open_out", {Outcome("false", NoFile, {})})
                 ELSE At(S, "write",
                         {Moved("true",
                                FileOf(lossless_container(file_size, header_data,
                                                          num_floats, compressed)),
                                Len(header_data))})))

\* the caller going on whatever the backend returned
zstd_failed_ignored(decompressed) == FALSE

\* line 278: if (decompressed.empty()) return false;
zstd_failed(decompressed) == decompressed = <<>>

\* the stages of decompress_lossless, in the order of the code
LosslessDecompressStages ==
    <<"open_in", "read", "backend", "xor_delta", "open_out", "write">>

\* a size read from the container that no allocation can serve ends the
\* process (std::bad_alloc or std::length_error, not caught); junk is what
\* the bytes of hdr and bh hold that no read filled
decompress_lossless_with(file, flt, junk) ==
    LET S == LosslessDecompressStages
        b == file.bytes
        s0 == StreamOpen
        hdr == ReadStruct(b, s0, 32, junk)
        s1 == ReadAdvance(b, s0, 32)
        json_header_size == SubSeq(hdr, 9, 16)
        hdr_num_floats == SubSeq(hdr, 17, 20)
        num_floats == U32ToNat(hdr_num_floats)
        header_data == ReadVector(b, s1, U64ToNat(json_header_size))
        s2 == ReadAdvance(b, s1, U64ToNat(json_header_size))
        bh == ReadStruct(b, s2, 16, junk)
        s3 == ReadAdvance(b, s2, 16)
        bh_compressed_size == SubSeq(bh, 1, 8)
        bh_original_size == SubSeq(bh, 9, 16)
        block == ReadVector(b, s3, U64ToNat(bh_compressed_size))
        decompressed == zstd_decompress(block, U64ToNat(bh_original_size), flt)
        undef == CopyUB(Len(decompressed), num_floats * 4)
        u32 == xor_delta_decode_inplace_u32(
                   WordsOf(decompressed \o Repeat(0, num_floats * 4 - Len(decompressed)),
                           num_floats))
        tensor_bytes == BytesOf(u32)
    IN  IF flt = "d_open_in" \/ ~file.exists
        THEN At(S, "open_in", {Outcome("false", NoOutput, {})})
        ELSE Adding(StructUB(s1),
          IF ~U64Fits(json_header_size)
          THEN At(S, "read", {Outcome("crash", NoOutput, {})})
          ELSE Adding(StructUB(s3),
            IF ~U64Fits(bh_compressed_size)
            THEN At(S, "read", {Outcome("crash", NoOutput, {})})
            ELSE IF ~U64Fits(bh_original_size)
            THEN At(S, "backend", {Outcome("crash", NoOutput, {})})
            ELSE IF zstd_failed(decompressed)
            THEN At(S, "backend", {Moved("false", NoOutput, Len(header_data))})
            ELSE IF hdr_num_floats[4] >= 128
            THEN At(S, "xor_delta", {Outcome("crash", NoOutput, {})})
            ELSE At(S, "xor_delta",
                   {[o EXCEPT !.file = IF o.ret = "crash" THEN NoOutput ELSE o.file] :
                      o \in WithUB(undef,
                              IF flt = "d_open_out"
                              THEN At(S, "open_out",
                                      {Moved("false", NoOutput, Len(header_data))})
                              ELSE At(S, "write",
                                      {Moved("true", OutputOf(header_data, tensor_bytes),
                                             Len(header_data))}))})))

decompress_lossless(file, flt) ==
    UNION {decompress_lossless_with(file, flt, junk) : junk \in Indeterminate}

(***************************************************************************)
(* Lossy tool (advcodec.cpp:210-365)                                       *)
(***************************************************************************)
ZeroFloat == <<0, 0, 0, 0>>

\* lines 273-286: Header, metadata, compressed size, compressed tensor
lossy_container(file_size, json_header_size, num_floats, use8, min_val, max_val, header, compressed_tensors) ==
    LE64(file_size) \o json_header_size \o LE32(num_floats)
        \o LE32(IF use8 THEN 1 ELSE 0) \o min_val \o max_val
        \o header
        \o LE64(Len(compressed_tensors)) \o compressed_tensors

\* lines 253-262: the halves of the floats, as bytes
f16_bytes_of(floats) ==
    Flatten([k \in 1..Len(floats) |->
                <<f32_to_f16(floats[k]) % 256, f32_to_f16(floats[k]) \div 256>>])

\* the stages of compress, in the order of the code; encode is quantize,
\* delta and RLE, or float16 and RLE
LossyCompressStages ==
    <<"open_in", "read", "check_size", "split", "encode", "open_out", "write">>

\* lines 237-286, once header and tensor_bytes are sliced
lossy_encode(file_size, json_header_size, header, tensor_bytes, use8, flt) ==
    LET S == LossyCompressStages
        num_floats == Len(tensor_bytes) \div 4
        floats == WordsOf(tensor_bytes, num_floats)
        undef == CopyUB(Len(tensor_bytes), num_floats * 4)
        q == quantize_8bit(floats, ZeroFloat, ZeroFloat)
        compressed_tensors ==
            IF use8 THEN compress_rle(delta_encode_varbyte(q.quantized))
            ELSE compress_rle(f16_bytes_of(floats))
        min_val == IF use8 THEN q.out_min ELSE ZeroFloat
        max_val == IF use8 THEN q.out_max ELSE ZeroFloat
    IN  At(S, "split",
          WithUB(undef,
            IF flt = "c_open_out" THEN At(S, "open_out", {Outcome("false", NoFile, {})})
            ELSE At(S, "write",
                    {Moved("true",
                           FileOf(lossy_container(file_size, json_header_size, num_floats,
                                                  use8, min_val, max_val, header,
                                                  compressed_tensors)),
                           Len(header))})))

\* lines 234-235: file_data.begin() + 8 + json_header_size stays inside the
\* buffer; the offset is taken modulo 2^64
lossy_split_inside(json_header_size, file_size) ==
    ~Gt64(Add64(LE64(8), json_header_size), LE64(file_size))

\* an iterator outside the buffer is undefined: a build that checks its
\* iterators stops there; another reads past the end of the buffer into
\* header (when that many bytes can be allocated) and stops when
\* tensor_bytes is given a negative length
lossy_split_outside(json_header_size) ==
    {Outcome("crash", NoFile, {"iterator outside the file buffer"})}
    \cup (IF U64Fits(json_header_size)
          THEN {Outcome("crash", NoFile, {"iterator outside the file buffer",
                                          "read outside the file buffer"})}
          ELSE {})

compress(data, use8, flt) ==
    LET S == LossyCompressStages
        file_size == Len(data)
        json_header_size == SubSeq(data, 1, 8)
        split == U64ToNat(Add64(LE64(8), json_header_size))
        header == SubSeq(data, 1, split)
        tensor_bytes == SubSeq(data, split + 1, file_size)
    IN  IF flt = "c_open_in" THEN At(S, "open_in", {Outcome("false", NoFile, {})})
        ELSE IF file_size < 8 THEN At(S, "check_size", {Outcome("false", NoFile, {})})
        ELSE IF ~lossy_split_inside(json_header_size, file_size)
             THEN At(S, "split", lossy_split_outside(json_header_size))
        ELSE lossy_encode(file_size, json_header_size, header, tensor_bytes, use8, flt)

\* line 315: std::vector<uint8_t> header(8 + hdr.json_header_size);
lossy_metadata_size(json_header_size) == Add64(LE64(8), json_header_size)

\* lines 338-347: the floats of the halves
floats_of_f16_bytes(f16_bytes) ==
    [k \in 1..(Len(f16_bytes) \div 2) |->
        f16_to_f32(f16_bytes[2 * k - 1] + 256 * f16_bytes[2 * k])]

\* a float the model does not evaluate: the value dequantize_8bit computes
\* from a minimum or maximum outside the patterns F32Value is exact on
OtherFloat == [whole |-> 0, frac |-> 255]

\* the stages of decompress, in the order of the code; decode is RLE, delta
\* and dequantize, or RLE and float16
LossyDecompressStages == <<"open_in", "read", "decode", "open_out", "write">>

\* junk is what the bytes of hdr and compressed_size hold that no read filled
decompress_with(file, flt, junk) ==
    LET S == LossyDecompressStages
        b == file.bytes
        s0 == StreamOpen
        hdr == ReadStruct(b, s0, 32, junk)
        s1 == ReadAdvance(b, s0, 32)
        header_size == lossy_metadata_size(SubSeq(hdr, 9, 16))
        compression_method == SubSeq(hdr, 21, 24)
        min_value == SubSeq(hdr, 25, 28)
        max_value == SubSeq(hdr, 29, 32)
        header == ReadVector(b, s1, U64ToNat(header_size))
        s2 == ReadAdvance(b, s1, U64ToNat(header_size))
        compressed_size == ReadStruct(b, s2, 8, junk)
        s3 == ReadAdvance(b, s2, 8)
        compressed == ReadVector(b, s3, U64ToNat(compressed_size))
        rle == decompress_rle(compressed)
        quantized == delta_decode_varbyte(rle)
        undef == IF compression_method = LE32(1) THEN {}
                 ELSE CopyUB(Len(rle), (Len(rle) \div 2) * 2)
        tensor == IF compression_method = LE32(1)
                  THEN IF F32Exact(min_value) /\ F32Exact(max_value)
                       THEN dequantize_8bit(quantized, min_value, max_value)
                       ELSE Repeat(OtherFloat, Len(quantized))
                  ELSE BytesOf(floats_of_f16_bytes(rle))
    IN  IF flt = "d_open_in" \/ ~file.exists
        THEN At(S, "open_in", {Outcome("false", NoOutput, {})})
        ELSE Adding(StructUB(s1),
          IF ~U64Fits(header_size)
          THEN At(S, "read", {Outcome("crash", NoOutput, {})})
          ELSE Adding(StructUB(s3),
            IF ~U64Fits(compressed_size)
            THEN At(S, "read", {Outcome("crash", NoOutput, {})})
            ELSE At(S, "decode",
                   {[o EXCEPT !.file = IF o.ret = "crash" THEN NoOutput ELSE o.file] :
                      o \in WithUB(undef,
                              IF flt = "d_open_out"
                              THEN At(S, "open_out", {Moved("false", NoOutput, Len(header))})
                              ELSE At(S, "write",
                                      {Moved("true", OutputOf(header, tensor),
                                             Len(header))}))})))

decompress(file, flt) ==
    UNION {decompress_with(file, flt, junk) : junk \in Indeterminate}

(***************************************************************************)
(* The two tools at work: a file is compressed (-c), then the container is *)
(* decompressed (-d).  The environment may make one step fail.             *)
(***************************************************************************)
MaxMeta == 1
MaxPayload == 2

\* 0.0, -0.0, 1.5, -1.5
PayloadWords == {ZeroFloat, <<0, 0, 0, 128>>, <<0, 0, 192, 63>>, <<0, 0, 192, 191>>}

OneFloat == <<0, 0, 128, 63>>

\* metadata of 0..MaxMeta bytes
Metas == {Repeat(123, n) : n \in 0..MaxMeta}

\* nothing, or one byte that does not fill a float
Tails == {<<>>, <<9>>}

\* prefix, metadata, floats, tail
WellFormed(W) ==
    {LE64(Len(m)) \o m \o BytesOf(p) \o t :
        m \in Metas, p \in SeqUpTo(W, MaxPayload), t \in Tails}

\* files of 0..7 bytes
ShortFiles == {Repeat(1, n) : n \in 0..7}

\* 2^64-8, 2^64-4, 2^64-1: prefixes whose 64-bit sum with 8 wraps around
WrappingPrefixes ==
    {<<248, 255, 255, 255, 255, 255, 255, 255>>,
     <<252, 255, 255, 255, 255, 255, 255, 255>>,
     <<255, 255, 255, 255, 255, 255, 255, 255>>}

\* 2, 300, 2^63-1, 2^63, 2^64-9: prefixes beyond the files below, whose
\* 64-bit sum with 8 does not wrap
LongPrefixes ==
    {LE64(2), LE64(300),
     <<255, 255, 255, 255, 255, 255, 255, 127>>,
     <<0, 0, 0, 0, 0, 0, 0, 128>>,
     <<247, 255, 255, 255, 255, 255, 255, 255>>}

ShortDeclared == {L \o rest : L \in LongPrefixes, rest \in {<<>>, <<123>>}}

Wrapped == {L \o BytesOf(p) : L \in WrappingPrefixes, p \in SeqUpTo(PayloadWords, 1)}

\* prefix 0, no metadata, the floats 0.0, -0.0, 1.5, -1.5
FourFloats ==
    LE64(0) \o BytesOf(<<ZeroFloat, <<0, 0, 0, 128>>, <<0, 0, 192, 63>>, <<0, 0, 192, 191>>>>)

\* 16 zero bytes, then 100 copies of 1.0
ZerosAndOnes == Repeat(0, 16) \o BytesOf(Repeat(OneFloat, 100))

\* line 161: while (i < data.size() && lit_length < 255)
LiteralCap == 255

\* no metadata, then 0.0 and 1.0 in turn, LiteralCap + 1 floats in all: more
\* codes than one literal record takes, and no four equal bytes in a row
\* either in their 8-bit delta codes or in their halves
AlternatingFloats ==
    LE64(0) \o BytesOf([k \in 1..(LiteralCap + 1) |->
                           IF k % 2 = 1 THEN ZeroFloat ELSE OneFloat])

\* the inputs too long to cut at every byte
LongInputs == {ZerosAndOnes, AlternatingFloats}

\* the 8-bit path is given floats the quantizer's arithmetic is exact on
Inputs(t, use8) ==
    IF t = "lossy" /\ use8
    THEN UNION {WellFormed(S) : S \in QuantFloatSets}
            \cup ShortFiles \cup ShortDeclared \cup LongInputs
    ELSE WellFormed(PayloadWords)
            \cup ShortFiles \cup ShortDeclared \cup Wrapped \cup {FourFloats} \cup LongInputs

\* the step that fails: opening a file, or (lossless tool) the backend
Faults(t) ==
    {"none", "c_open_in", "c_open_out", "d_open_in", "d_open_out"}
        \cup (IF t = "lossless" THEN {"c_backend", "d_backend"} ELSE {})

Init ==
    /\ HarnessIdle
    /\ tool \in {"lossless", "lossy"}
    /\ use_8bit \in (IF tool = "lossy" THEN BOOLEAN ELSE {TRUE})
    /\ fault \in Faults(tool)
    /\ in_file \in Inputs(tool, use_8bit)
    /\ llmc_file = NoFile
    /\ c_ret = "none"
    /\ c_meta = 0
    /\ c_ran = <<>>
    /\ c_exit = 0
    /\ out_file = NoOutput
    /\ d_ret = "none"
    /\ d_meta = 0
    /\ d_ran = <<>>
    /\ d_exit = 0
    /\ ub = {}
    /\ pc = "start"

\* codec_4 -c in_file llmc_file
CompressLossless ==
    /\ tool = "lossless"
    /\ pc = "start"
    /\ \E o \in compress_lossless(in_file, fault) :
          /\ c_ret' = o.ret
          /\ llmc_file' = o.file
          /\ c_meta' = o.meta
          /\ c_ran' = o.ran
          /\ c_exit' = main_exit(o.ret)
          /\ ub' = ub \cup o.ub
    /\ pc' = "compressed"
    /\ UNCHANGED <<tool, use_8bit, fault, in_file, out_file, d_ret, d_meta, d_ran, d_exit>>
    /\ UNCHANGED tvars

\* codec_4 -d llmc_file out_file
DecompressLossless ==
    /\ tool = "lossless"
    /\ pc \in {"compressed", "truncated"}
    /\ \E o \in decompress_lossless(llmc_file, fault) :
          /\ d_ret' = o.ret
          /\ out_file' = o.file
          /\ d_meta' = o.meta
          /\ d_ran' = o.ran
          /\ d_exit' = main_exit(o.ret)
          /\ ub' = ub \cup o.ub
    /\ pc' = "decompressed"
    /\ UNCHANGED <<tool, use_8bit, fault, in_file, llmc_file, c_ret, c_meta, c_ran, c_exit>>
    /\ UNCHANGED tvars

\* advcodec -c in_file llmc_file [--float16]
CompressLossy ==
    /\ tool = "lossy"
    /\ pc = "start"
    /\ \E o \in compress(in_file, use_8bit, fault) :
          /\ c_ret' = o.ret
          /\ llmc_file' = o.file
          /\ c_meta' = o.meta
          /\ c_ran' = o.ran
          /\ c_exit' = main_exit(o.ret)
          /\ ub' = ub \cup o.ub
    /\ pc' = "compressed"
    /\ UNCHANGED <<tool, use_8bit, fault, in_file, out_file, d_ret, d_meta, d_ran, d_exit>>
    /\ UNCHANGED tvars

\* advcodec -d llmc_file out_file
DecompressLossy ==
    /\ tool = "lossy"
    /\ pc \in {"compressed", "truncated"}
    /\ \E o \in decompress(llmc_file, fault) :
          /\ d_ret' = o.ret
          /\ out_file' = o.file
          /\ d_meta' = o.meta
          /\ d_ran' = o.ran
          /\ d_exit' = main_exit(o.ret)
          /\ ub' = ub \cup o.ub
    /\ pc' = "decompressed"
    /\ UNCHANGED <<tool, use_8bit, fault, in_file, llmc_file, c_ret, c_meta, c_ran, c_exit>>
    /\ UNCHANGED tvars

Next ==
    \/ CompressLossless
    \/ DecompressLossless
    \/ CompressLossy
    \/ DecompressLossy

Spec == Init /\ [][Next]_vars

(***************************************************************************)
(* Properties of the tools                                                 *)
(***************************************************************************)
\* the length prefix of a file of at least 8 bytes
PrefixOf(f) == SubSeq(f, 1, 8)

\* the file has at least 8 bytes and 8 + L, the mathematical sum, is at
\* most its size
DeclaredInside(f) == Len(f) >= 8 /\ ~MathEndBeyond(PrefixOf(f), Len(f))

\* the file is shorter than 8 bytes, or shorter than 8 + L
TooShort(f) == ~DeclaredInside(f)

\* the number of payload bytes of a file with DeclaredInside
PayloadLen(f) == Len(f) - 8 - U64ToNat(PrefixOf(f))

\* the bytes of the output file, when its tensor is bytes
OutputBytes == out_file.header \o out_file.tensor

\* C1: a file of at least 8 bytes with 8 + L <= size and a payload that is a
\* multiple of 4 bytes long (zero floats included) is compressed by
\* compress_lossless, and decompress_lossless then writes a file equal to it
\* byte for byte.
C1_LosslessRoundTrip ==
    (/\ tool = "lossless"
     /\ fault = "none"
     /\ pc = "decompressed"
     /\ DeclaredInside(in_file)
     /\ PayloadLen(in_file) % 4 = 0)
        => /\ c_ret = "true"
           /\ d_ret = "true"
           /\ out_file.exists
           /\ OutputBytes = in_file

\* the round trip of the files that do hold a float
C1_RoundTripOfNonEmptyPayload ==
    (/\ tool = "lossless"
     /\ fault = "none"
     /\ pc = "decompressed"
     /\ DeclaredInside(in_file)
     /\ PayloadLen(in_file) % 4 = 0
     /\ PayloadLen(in_file) > 0)
        => /\ c_ret = "true"
           /\ d_ret = "true"
           /\ out_file.exists
           /\ OutputBytes = in_file

\* C2: 16 zero bytes followed by 100 floats 1.0, compressed on the 8-bit
\* path and decompressed, give an output whose first 16 bytes are those of
\* the input and whose 100 following floats are within one quantization
\* step, 1/255 of the range 1.0 - 0.0, of 1.0.
C2_LossyScenario ==
    (/\ tool = "lossy"
     /\ use_8bit
     /\ fault = "none"
     /\ in_file = ZerosAndOnes
     /\ pc = "decompressed")
        => /\ d_ret = "true"
           /\ out_file.exists
           /\ out_file.header = Repeat(0, 8)
           /\ Len(out_file.tensor) = 102
           /\ \A k \in 1..2 : ExactValue(0, out_file.tensor[k])
           /\ \A k \in 3..102 : WithinStep(FloatOne, out_file.tensor[k], FloatOne)

\* C3: in both pipelines, for a file with 8 + L <= size, the decompressed
\* output begins with the 8 + L bytes the input begins with, whatever the
\* payload is, and the decompressor reads as many metadata bytes as the
\* compressor wrote.
C3_MetadataPassThrough ==
    (/\ pc = "decompressed"
     /\ fault = "none"
     /\ DeclaredInside(in_file))
        => LET n == 8 + U64ToNat(PrefixOf(in_file))
           IN  /\ out_file.exists
               /\ out_file.header = SubSeq(in_file, 1, n)
               /\ c_meta = n
               /\ d_meta = c_meta

\* the same for the runs that do write an output, whatever step failed
C3_PassThroughWhenWritten ==
    (/\ pc = "decompressed"
     /\ DeclaredInside(in_file)
     /\ out_file.exists)
        => LET n == 8 + U64ToNat(PrefixOf(in_file))
           IN  /\ out_file.header = SubSeq(in_file, 1, n)
               /\ c_meta = n
               /\ d_meta = c_meta

\* the same for every run in which no undefined behaviour occurred, but for
\* the lossless tool given a file without payload
C3_PassThroughOfDefinedRuns ==
    (/\ pc = "decompressed"
     /\ fault = "none"
     /\ DeclaredInside(in_file)
     /\ ub = {}
     /\ ~(tool = "lossless" /\ PayloadLen(in_file) = 0))
        => LET n == 8 + U64ToNat(PrefixOf(in_file))
           IN  /\ out_file.exists
               /\ out_file.header = SubSeq(in_file, 1, n)
               /\ c_meta = n
               /\ d_meta = c_meta

\* C9: LLMCodec::compress returns failure, reads nothing outside the file
\* buffer and writes no container for a file shorter than 8 bytes or
\* shorter than 8 + L.
C9_LossyRejectsShort ==
    (/\ tool = "lossy"
     /\ pc # "start"
     /\ fault = "none"
     /\ TooShort(in_file))
        => /\ c_ret = "false"
           /\ ~llmc_file.exists
           /\ "read outside the file buffer" \notin ub

\* no container is left for such a file, however the call ended
C9_NoContainerForShort ==
    (/\ tool = "lossy"
     /\ pc # "start"
     /\ TooShort(in_file))
        => ~llmc_file.exists

\* C10: compress_lossless returns failure for a file shorter than 8 bytes
\* and for every 64-bit prefix L whose sum 8 + L, as a mathematical integer,
\* exceeds the file size, the prefixes L >= 2^64 - 8 included.
C10_LosslessRejectsShort ==
    (/\ tool = "lossless"
     /\ pc # "start"
     /\ TooShort(in_file))
        => /\ c_ret = "false"
           /\ ~llmc_file.exists

\* the prefixes whose 64-bit sum does not wrap are rejected
C10_RejectsWithoutWrap ==
    (/\ tool = "lossless"
     /\ pc # "start"
     /\ TooShort(in_file)
     /\ (Len(in_file) >= 8 => PrefixOf(in_file) \notin WrappingPrefixes))
        => /\ c_ret = "false"
           /\ ~llmc_file.exists

\* the num_floats field of a container: bytes 17..20 of either Header
ContainerNumFloats(file) == U32ToNat(SubSeq(file.bytes, 17, 20))

\* C11: in both pipelines compress fails, and leaves no container, on a
\* payload whose length is not a multiple of 4; in every container that
\* compress writes num_floats * 4 is the payload length; and no copy into
\* the buffer of floats or words writes past its num_floats * 4 bytes.
C11_PayloadMultipleOf4 ==
    (/\ pc # "start"
     /\ DeclaredInside(in_file))
        => /\ PayloadLen(in_file) % 4 # 0 => c_ret = "false" /\ ~llmc_file.exists
           /\ llmc_file.exists => ContainerNumFloats(llmc_file) * 4 = PayloadLen(in_file)
           /\ "write past the end of a buffer" \notin ub

\* the same for the payloads that are a multiple of 4 bytes long
C11_WholeFloatsAreCounted ==
    (/\ pc # "start"
     /\ DeclaredInside(in_file)
     /\ PayloadLen(in_file) % 4 = 0)
        => /\ llmc_file.exists => ContainerNumFloats(llmc_file) * 4 = PayloadLen(in_file)
           /\ "write past the end of a buffer" \notin ub

(***************************************************************************)
(* A container that lost its end before -d reads it: the file is cut       *)
(* after any number of its bytes.                                          *)
(***************************************************************************)
TruncateContainer ==
    /\ pc = "compressed"
    /\ llmc_file.exists
    /\ \E n \in 0..(Len(llmc_file.bytes) - 1) :
          llmc_file' = FileOf(SubSeq(llmc_file.bytes, 1, n))
    /\ pc' = "truncated"
    /\ UNCHANGED <<tool, use_8bit, fault, in_file, c_ret, c_meta, c_ran, c_exit,
                   out_file, d_ret, d_meta, d_ran, d_exit, ub>>
    /\ UNCHANGED tvars

\* no step is made to fail, and the file is a short one that declares its
\* metadata inside itself
InitTruncated ==
    Init /\ fault = "none" /\ DeclaredInside(in_file) /\ in_file \notin LongInputs

NextTruncated ==
    \/ CompressLossless
    \/ CompressLossy
    \/ TruncateContainer
    \/ DecompressLossless
    \/ DecompressLossy

SpecTruncated == InitTruncated /\ [][NextTruncated]_vars

\* the metadata size a container declares: 8 + json_header_size for the
\* lossy tool (advcodec.cpp:315), json_header_size for the lossless one
\* (codec_4.cpp:265)
DeclaredMetadata(t, bytes) ==
    IF t = "lossy" THEN lossy_metadata_size(SubSeq(bytes, 9, 16))
    ELSE SubSeq(bytes, 9, 16)

\* the bytes of the field compressed_size and of what precedes the block:
\* 8 in the lossy container, the 16 of BlockHeader in the lossless one
SizeFieldLen(t) == IF t = "lossy" THEN 8 ELSE 16

\* the Header is whole and the metadata it declares is longer than the rest
\* of the file
MetadataBeyond(t, bytes) ==
    /\ Len(bytes) >= 32
    /\ U64Fits(DeclaredMetadata(t, bytes))
    /\ U64ToNat(DeclaredMetadata(t, bytes)) > Len(bytes) - 32

\* Header, metadata and compressed_size are whole and the block declared is
\* longer than the rest of the file
BlockBeyond(t, bytes) ==
    /\ Len(bytes) >= 32
    /\ U64Fits(DeclaredMetadata(t, bytes))
    /\ LET at == 32 + U64ToNat(DeclaredMetadata(t, bytes))
           compressed_size == SubSeq(bytes, at + 1, at + 8)
       IN  /\ Len(bytes) >= at + SizeFieldLen(t)
           /\ U64Fits(compressed_size)
           /\ U64ToNat(compressed_size) > Len(bytes) - at - SizeFieldLen(t)

\* the stage that decodes the block
DecodeStage(t) == IF t = "lossy" THEN "decode" ELSE "backend"

\* the stages in ran
StagesRun(ran) == {ran[k] : k \in 1..Len(ran)}

\* C12: in both pipelines decompress returns failure and writes no output
\* for a container whose declared compressed_size, or declared metadata
\* size, exceeds the bytes left in the file, and never goes on to decode a
\* block buffer that the file filled only in part.
C12_TruncatedFailsClosed ==
    (/\ pc = "decompressed"
     /\ llmc_file.exists
     /\ MetadataBeyond(tool, llmc_file.bytes) \/ BlockBeyond(tool, llmc_file.bytes))
        => /\ d_ret = "false"
           /\ ~out_file.exists
           /\ DecodeStage(tool) \notin StagesRun(d_ran)

\* what does hold: no output is written by the lossless tool for a
\* container cut inside its metadata (its BlockHeader is then never read)
C12_LosslessMetadataCutWritesNothing ==
    (/\ pc = "decompressed"
     /\ tool = "lossless"
     /\ llmc_file.exists
     /\ MetadataBeyond(tool, llmc_file.bytes))
        => ~out_file.exists

(***************************************************************************)
(* The RLE decoder on any bytes at all (advcodec.cpp:184-207): what each   *)
(* iteration of its loop read and where it left the read position.         *)
(***************************************************************************)
\* the indices (from 0, as in the code) that the iteration at read position
\* i reads: compressed[i]; compressed[i + 1] and compressed[i + 2] of a run;
\* compressed[i + 1 .. i + length] of a literal
rle_decode_reads(compressed, i) ==
    IF compressed[i + 1] = 255 /\ i + 2 < Len(compressed)
    THEN {i, i + 1, i + 2}
    ELSE IF i + compressed[i + 1] < Len(compressed)
         THEN i..(i + compressed[i + 1])
         ELSE {i}

\* the iterations of the loop of decompress_rle, in order: the read position
\* each began at, what it read, and the state it left
rle_decode_trace(compressed) ==
    Loop(LAMBDA acc, idx :
            IF acc.st.i = idx /\ ~acc.st.stop
            THEN [st |-> rle_decode_step(compressed, acc.st),
                  trace |-> Append(acc.trace,
                                   [from |-> idx,
                                    reads |-> rle_decode_reads(compressed, idx),
                                    to |-> rle_decode_step(compressed, acc.st)])]
            ELSE acc,
         [st |-> [i |-> 0, data |-> <<>>, stop |-> FALSE], trace |-> <<>>],
         0, Len(compressed) - 1).trace

MaxCompressed == 4

\* every sequence of up to MaxCompressed bytes among 0, 1, 2, 3 and the
\* marker 255; and a length byte or a marker before 253..255 bytes
AnyCompressed ==
    SeqUpTo({0, 1, 2, 3, 255}, MaxCompressed)
        \cup {<<n>> \o Repeat(7, m) : n \in {254, 255}, m \in 253..255}
        \cup {<<1, 7, n>> \o Repeat(7, m) : n \in {254, 255}, m \in 253..255}

RleAnyInit ==
    /\ ToolsIdle
    /\ t_in \in AnyCompressed
    /\ t_enc = <<>>
    /\ t_dec = <<>>
    /\ t_pc = "compressed"

\* decompress_rle(compressed), with the iterations it made
RleDecodeAny ==
    /\ t_pc = "compressed"
    /\ t_enc' = rle_decode_trace(t_in)
    /\ t_dec' = decompress_rle(t_in)
    /\ t_pc' = "decoded"
    /\ UNCHANGED t_in
    /\ UNCHANGED pvars

RleAnyNext == RleDecodeAny

SpecRleAny == RleAnyInit /\ [][RleAnyNext]_vars

RECURSIVE CompleteRecords(_, _)
\* the bytes of the complete records of c from index i (from 0) on: a marker
\* 255 with at least two bytes after it is a run; any other byte is the
\* length of a literal, complete when that many bytes follow it; the first
\* record that is not complete ends the sequence
CompleteRecords(c, i) ==
    IF i >= Len(c) THEN <<>>
    ELSE IF c[i + 1] = 255 /\ Len(c) - (i + 1) >= 2
         THEN Repeat(c[i + 3], c[i + 2]) \o CompleteRecords(c, i + 3)
    ELSE IF c[i + 1] = 255 THEN <<>>
    ELSE IF Len(c) - (i + 1) >= c[i + 1]
         THEN SubSeq(c, i + 2, i + 1 + c[i + 1]) \o CompleteRecords(c, i + 1 + c[i + 1])
    ELSE <<>>

\* C13: for every byte sequence c decompress_rle terminates, reads only
\* indices within c, advances the read position by at least one byte in each
\* iteration that does not stop, and ends silently at a trailing record that
\* is not complete, returning the bytes of the complete records before it.
C13_RleDecoderTotal ==
    t_pc = "decoded" =>
        LET n == Len(t_in)
            tr == t_enc
        IN  /\ Len(tr) <= n
            /\ n > 0 => /\ Len(tr) >= 1
                        /\ tr[Len(tr)].to.stop \/ tr[Len(tr)].to.i >= n
            /\ \A k \in 1..Len(tr) :
                  /\ tr[k].reads \subseteq 0..(n - 1)
                  /\ tr[k].to.stop \/ tr[k].to.i >= tr[k].from + 1
                  /\ tr[k].to.stop => k = Len(tr) /\ tr[k].to.data = CompleteRecords(t_in, 0)
                  /\ k < Len(tr) => tr[k + 1].from = tr[k].to.i
            /\ t_dec = CompleteRecords(t_in, 0)

\* a run and a literal were decoded and decoding stopped at a record the
\* input ends inside
C13_Witness ==
    /\ t_pc = "decoded"
    /\ Len(t_enc) >= 3
    /\ t_enc[Len(t_enc)].to.stop
    /\ \E k \in 1..Len(t_enc) : t_in[t_enc[k].from + 1] = 255 /\ ~t_enc[k].to.stop
    /\ \E k \in 1..Len(t_enc) : t_in[t_enc[k].from + 1] # 255 /\ ~t_enc[k].to.stop
    /\ Len(t_dec) > 0

(***************************************************************************)
(* Abort on first failure: the stages a call ran, what it returned, what   *)
(* it wrote and the exit code of main.                                     *)
(***************************************************************************)
CompressStages(t) == IF t = "lossy" THEN LossyCompressStages ELSE LosslessCompressStages

DecompressStages(t) == IF t = "lossy" THEN LossyDecompressStages ELSE LosslessDecompressStages

\* the stages with a return false in them: the open of the input, the test
\* of the file size and of the length prefix, the test of what the backend
\* returned, the open of the output
FailingStages == {"open_in", "check_size", "backend", "open_out"}

\* a call that returned false stopped in a stage that can fail, ran the
\* stages before it in order and none after it
StoppedAtFailure(stages, ran) ==
    /\ ran # <<>>
    /\ ran[Len(ran)] \in FailingStages
    /\ ran = UpTo(stages, ran[Len(ran)])
    /\ "write" \notin StagesRun(ran)

\* the stage where the failure of this run, if it has one, is reported
FaultStage(flt) ==
    IF flt \in {"c_open_in", "d_open_in"} THEN "open_in"
    ELSE IF flt \in {"c_backend", "d_backend"} THEN "backend"
    ELSE "open_out"

\* C14: in both tools a call of compress or decompress in which a step
\* reports failure runs no later stage, writes no byte of output and
\* returns false, and main exits with code 1; a call that returns true has
\* run every stage of its pipeline in order.
C14_AbortOnFirstFailure ==
    /\ pc \in {"compressed", "decompressed"} =>
          /\ c_ret = "false" => /\ StoppedAtFailure(CompressStages(tool), c_ran)
                                /\ ~llmc_file.exists
                                /\ c_exit = 1
          /\ c_ret = "true" => c_ran = CompressStages(tool) /\ c_exit = 0
          /\ (fault \in {"c_open_in", "c_backend", "c_open_out"}
                /\ FaultStage(fault) \in StagesRun(c_ran))
                => c_ret = "false" /\ c_ran[Len(c_ran)] = FaultStage(fault)
          /\ (fault # "c_open_in"
                /\ \/ Len(in_file) < 8
                   \/ tool = "lossless" /\ lossless_prefix_bad(PrefixOf(in_file), Len(in_file)))
                => c_ret = "false" /\ c_ran = UpTo(CompressStages(tool), "check_size")
    /\ pc = "decompressed" =>
          /\ d_ret = "false" => /\ StoppedAtFailure(DecompressStages(tool), d_ran)
                                /\ ~out_file.exists
                                /\ d_exit = 1
          /\ d_ret = "true" => d_ran = DecompressStages(tool) /\ d_exit = 0
          /\ (fault \in {"d_open_in", "d_backend", "d_open_out"}
                /\ FaultStage(fault) \in StagesRun(d_ran))
                => d_ret = "false" /\ d_ran[Len(d_ran)] = FaultStage(fault)
          /\ ~llmc_file.exists => d_ret = "false" /\ d_ran = <<"open_in">>

\* compress ran every stage and returned true, and decompress stopped at
\* the backend's error: no later stage, no output, exit code 1
C14_Witness ==
    /\ pc = "decompressed"
    /\ fault = "d_backend"
    /\ c_ret = "true" /\ c_ran = LosslessCompressStages /\ c_exit = 0
    /\ d_ret = "false" /\ d_ran = <<"open_in", "read", "backend">>
    /\ ~out_file.exists /\ d_exit = 1

(***************************************************************************)
(* The shape of what the lossy decompress writes (advcodec.cpp:325-355)    *)
(* against the Header of the container (advcodec.cpp:273-279).             *)
(***************************************************************************)
\* the original_size field of a lossy container: bytes 1..8 of the Header
ContainerOriginalSize(file) == U64ToNat(SubSeq(file.bytes, 1, 8))

\* the number of float32 values in the output: tensor_bytes.size() / 4
FloatsWritten ==
    IF use_8bit THEN Len(out_file.tensor) ELSE Len(out_file.tensor) \div 4

\* the byte codes handed to compress_rle: one per float on the 8-bit path,
\* two per float on the float16 path
CodesOf(f) ==
    IF use_8bit THEN PayloadLen(f) \div 4 ELSE 2 * (PayloadLen(f) \div 4)

\* C15: for every container LLMCodec::compress wrote, on either path, from
\* an input whose payload is a multiple of 4 bytes long, LLMCodec::decompress
\* writes as many float32 values as the Header's num_tensors says, so that
\* the output has original_size bytes; payloads of 255 or more codes with no
\* run of 4 equal bytes included.
C15_LossyExactShape ==
    (/\ tool = "lossy"
     /\ fault = "none"
     /\ pc = "decompressed"
     /\ c_ret = "true"
     /\ DeclaredInside(in_file)
     /\ PayloadLen(in_file) % 4 = 0)
        => /\ d_ret = "true"
           /\ out_file.exists
           /\ FloatsWritten = ContainerNumFloats(llmc_file)
           /\ Len(out_file.header) + 4 * FloatsWritten = ContainerOriginalSize(llmc_file)

\* what does hold: the shape is exact when the codes fit one literal record
\* with room to spare
C15_ExactShapeOfShortPayloads ==
    (/\ tool = "lossy"
     /\ fault = "none"
     /\ pc = "decompressed"
     /\ c_ret = "true"
     /\ DeclaredInside(in_file)
     /\ PayloadLen(in_file) % 4 = 0
     /\ CodesOf(in_file) < LiteralCap)
        => /\ d_ret = "true"
           /\ out_file.exists
           /\ FloatsWritten = ContainerNumFloats(llmc_file)
           /\ Len(out_file.header) + 4 * FloatsWritten = ContainerOriginalSize(llmc_file)

====
